---- MODULE Spec2Model ----
(***************************************************************************)
(* Ponto Urbano backend: the request handlers of the three deployment      *)
(* profiles of the service, modelled as one state machine.                 *)
(*                                                                         *)
(*   variant = "disk"   src/backend/server.js and src/unnamed/part_000     *)
(*                      (multer diskStorage, no ownership column)          *)
(*   variant = "cloud"  src/unnamed/part_001                               *)
(*                      (multer memoryStorage + Cloudinary, usuario_id,    *)
(*                       PUT /perfil, DELETE /problemas/:id/foto)          *)
(*                                                                         *)
(* Every handler is an async function: it runs atomically up to its next   *)
(* `await`, so each action below is one such segment, and the handlers of  *)
(* different sessions interleave at the awaits.  One request is in flight  *)
(* per session cookie at a time.                                           *)
(***************************************************************************)
EXTENDS Integers, Sequences, FiniteSets, TLC

(* ------------------------------ bounds --------------------------------- *)
\* requests the service receives in one run; every table, file set and
\* counter below is bounded by it
MaxRequests == 4

(* ---------------------------- input values ----------------------------- *)
Sessions == {"sidA", "sidB"}
Emails == {"ana@x", "bia@x"}
Senhas == {"pw1", "pw2"}
Salts == {"salt"}

\* JavaScript values a body field can take: undefined (absent), null, "".
Undef == "undefined"
Null == "null"
Empty == ""
Falsy(x) == x \in {Undef, Null, Empty}
Nullish(x) == x \in {Undef, Null}

\* req.file as the client sends it: none, an image, a non-image, an image
\* above the 5MB ceiling.
NoFile == "nofile"
Files == {NoFile, "image/png", "text/plain", "image/big"}

\* A stored photo reference: SQL NULL, the built-in avatar, a path under
\* frontend/uploads, or a secure_url of the image host.
NoFoto == [host |-> "null", folder |-> "", name |-> 0]
DefaultFotoPerfil == [host |-> "data:image/svg+xml", folder |-> "", name |-> 0]
LocalPath(n) == [host |-> "uploads", folder |-> "", name |-> n]
SecureUrl(folder, n) == [host |-> "res.cloudinary.com", folder |-> folder, name |-> n]

(* --------------------------- password hashing -------------------------- *)
bcryptHash(senha, salt) == [alg |-> "bcrypt10", salt |-> salt, digest |-> <<salt, senha>>]
bcryptCompare(senha, hash) == hash = bcryptHash(senha, hash.salt)

(* ------------------------------ responses ------------------------------ *)
\* mutant: the replies carry the success flag only
ReplySemMessage(status, success, message) ==
  [status |-> status, json |-> "object", body |-> [success |-> success]]

\* A response: res.status(status).json(body); json is "object" or "array".
Reply(status, success, message) ==
  [status |-> status, json |-> "object", body |-> [success |-> success, message |-> message]]
\* { success: false, message, error: error.message }
ReplyErr(status, message, error) ==
  [status |-> status, json |-> "object",
   body |-> [success |-> FALSE, message |-> message, error |-> error]]
NoReply == [status |-> 0, json |-> "none", body |-> <<>>]

\* error.message of the rejections the collaborators produce
StoreDown == "store unavailable"
DuplicateKey == "duplicate key violates unique constraint"
NotNullViolation == "null value violates not-null constraint"
HostDown == "image host unavailable"
NotAnImage == "Apenas arquivos de imagem são permitidos!"

CamposObrigatorios == Reply(400, FALSE, "Todos os campos são obrigatórios")
EmailJaCadastrado == Reply(400, FALSE, "E-mail já cadastrado")
ErroCriarUsuario(error) == ReplyErr(500, "Erro ao criar usuário", error)
ErroUploadPerfil == ReplyErr(500, "Erro ao fazer upload da imagem de perfil", HostDown)
LoginObrigatorios == Reply(400, FALSE, "E-mail e senha são obrigatórios")
\* mutant: the unknown-email branch names its cause
LoginEmailNaoCadastrado == Reply(404, FALSE, "E-mail não cadastrado")
LoginUnknownEmail == Reply(400, FALSE, "E-mail ou senha incorretos")
LoginWrongPassword == Reply(400, FALSE, "E-mail ou senha incorretos")
ErroLogin == ReplyErr(500, "Erro ao fazer login", StoreDown)
LogoutOk == Reply(200, TRUE, "Logout realizado com sucesso")
NaoAutorizado == Reply(401, FALSE, "Não autorizado. Faça login primeiro.")
ErroInterno == ReplyErr(500, "Erro interno no servidor", NotAnImage)
ImagemGrande == Reply(400, FALSE, "A imagem deve ter no máximo 5MB")

(* ------------------------------- state --------------------------------- *)
VARIABLES
  variant,    \* deployment profile, fixed at start-up
  usuarios,   \* table usuarios: sequence of rows, in insertion order
  problemas,  \* table problemas: sequence of rows, in insertion order
  now,        \* the store's CURRENT_TIMESTAMP
  uploads,    \* names of the files in frontend/uploads (disk profile)
  remote,     \* public ids of the images on the image host (cloud profile)
  fileSeq,    \* names handed out so far (multer filename / host asset name)
  session,    \* session store: cookie -> session data
  req,        \* the request in flight of each session, with its locals
  resp,       \* the response the last step sent and the session it went to (Silent if none)
  nreq,       \* requests received so far
  began       \* began[i]: rows of problemas present when the submission of row i was received

vars == <<variant, usuarios, problemas, now, uploads, remote, fileSeq,
          session, req, resp, nreq, began>>

Silent == [sid |-> "", reply |-> NoReply]
Idle == [route |-> "idle", pc |-> "idle"]
\* userId 0 stands for a session without userId
NoSession == [userId |-> 0, userName |-> Undef, userEmail |-> Undef]

\* app.use(session(...)): a request carries the session its cookie names.
Receive(s) == req[s].route = "idle" /\ nreq < MaxRequests

Answer(s, r) ==
  /\ req' = [req EXCEPT ![s] = Idle]
  /\ resp' = [sid |-> s, reply |-> r]

\* initDatabase() creates the tables only IF NOT EXISTS: the store starts
\* empty, or with the account an earlier run of the service registered.
\* Sessions live in the process and start empty.
StoredAtStart(profile) ==
  {<<>>,
   <<[id |-> 1, nome |-> "Ana", email |-> "ana@x", senha |-> bcryptHash("pw1", "salt"),
      foto_perfil |-> IF profile = "cloud" THEN DefaultFotoPerfil ELSE NoFoto]>>}

Init ==
  /\ variant \in {"disk", "cloud"}
  /\ usuarios \in StoredAtStart(variant)
  /\ problemas = <<>>
  /\ now = 0
  /\ uploads = {}
  /\ remote = {}
  /\ fileSeq = 0
  /\ session = [s \in Sessions |-> NoSession]
  /\ req = [s \in Sessions |-> Idle]
  /\ resp = Silent
  /\ nreq = 0
  /\ began = <<>>

(* ---------------------------- store helpers ---------------------------- *)
\* mutant: the lookup compares the email with the name column
SelectByNome(email) == SelectSeq(usuarios, LAMBDA u : u.nome = email)

\* SELECT ... FROM usuarios WHERE email = ?
SelectByEmail(email) == SelectSeq(usuarios, LAMBDA u : u.email = email)

\* mutant: the email column without its UNIQUE constraint
EmailUniqueDropped(email) == TRUE

\* email VARCHAR(100) NOT NULL UNIQUE
EmailUnique(email) == \A i \in 1..Len(usuarios) : usuarios[i].email # email

\* multer({ limits: { fileSize }, fileFilter }) of the cloud profile;
\* the disk profile configures neither.
UploadGuard(file) ==
  IF variant = "disk" \/ file = NoFile THEN "ok"
  ELSE IF file = "text/plain" THEN "filter"
  ELSE IF file = "image/big" THEN "size"
  ELSE "ok"

\* The general error handler, reached through next(err) of the upload guard.
UploadRejected(file) ==
  IF UploadGuard(file) = "size" THEN ImagemGrande ELSE ErroInterno

\* The disk profile stores whatever file arrives, so one kind of file stands
\* for all of them there.
FilesSent == IF variant = "disk" THEN {NoFile, "image/png"} ELSE Files

\* mutant: the guard lets every request through
requireAuthOpen(s) == TRUE

\* const requireAuth = (req, res, next) => { if (req.session.userId) ... }
requireAuth(s) == session[s].userId # 0

(* ------------------------------ environment ---------------------------- *)
\* CURRENT_TIMESTAMP advances.  Only the order and equality of the created_at
\* values are observable, so the clock moves once some row carries its value.
Tick ==
  /\ \E i \in 1..Len(problemas) : problemas[i].created_at = now
  /\ now' = now + 1
  /\ resp' = Silent
  /\ UNCHANGED <<variant, usuarios, problemas, uploads, remote, fileSeq,
                 session, req, nreq, began>>

(* ----------------------------- POST /cadastro -------------------------- *)
\* the bodies a client sends: complete, or with one field absent
CadastroBodies ==
  {[nome |-> "Ana", email |-> e, senha |-> "pw1"] : e \in Emails} \cup
  {[nome |-> Undef, email |-> "ana@x", senha |-> "pw1"],
   [nome |-> "Ana", email |-> Undef, senha |-> "pw1"],
   [nome |-> "Ana", email |-> "ana@x", senha |-> Undef]}

\* Up to the first await: upload guard (cloud), destructuring, validation.
CadastroStart(s) ==
  /\ Receive(s)
  /\ nreq' = nreq + 1
  /\ \E b \in CadastroBodies, file \in Files :
       /\ variant = "disk" => file = NoFile
       /\ IF UploadGuard(file) # "ok"
            THEN Answer(s, UploadRejected(file))
          ELSE IF Falsy(b.nome) \/ Falsy(b.email) \/ Falsy(b.senha)
            THEN Answer(s, CamposObrigatorios)
          ELSE /\ req' = [req EXCEPT ![s] =
                    [route |-> "cadastro", pc |-> "select", nome |-> b.nome,
                     email |-> b.email, senha |-> b.senha, file |-> file,
                     fotoPerfilUrl |-> DefaultFotoPerfil]]
               /\ resp' = Silent
  /\ UNCHANGED <<variant, usuarios, problemas, now, uploads, remote, fileSeq,
                 session, began>>

\* SELECT id FROM usuarios WHERE email = ?  and the pre-check on its result.
CadastroSelect(s) ==
  /\ req[s].route = "cadastro" /\ req[s].pc = "select"
  /\ \E ok \in BOOLEAN :
       IF ~ok THEN Answer(s, ErroCriarUsuario(StoreDown))
       ELSE IF Len(SelectByEmail(req[s].email)) > 0 THEN Answer(s, EmailJaCadastrado)
       ELSE /\ req' = [req EXCEPT ![s].pc =
                   IF req[s].file # NoFile THEN "upload" ELSE "insert"]
            /\ resp' = Silent
  /\ UNCHANGED <<variant, usuarios, problemas, now, uploads, remote, fileSeq,
                 session, nreq, began>>

\* mutant: a failed upload is swallowed and the registration goes on with the built-in avatar
CadastroUploadSwallowed(s) ==
  /\ req[s].route = "cadastro" /\ req[s].pc = "upload"
  /\ \E ok \in BOOLEAN :
       IF ~ok
         THEN /\ req' = [req EXCEPT ![s].pc = "insert"]
              /\ resp' = Silent
              /\ UNCHANGED <<remote, fileSeq>>
         ELSE /\ fileSeq' = fileSeq + 1
              /\ remote' = remote \cup {<<"ponto-urbano-perfil", fileSeq'>>}
              /\ req' = [req EXCEPT ![s].pc = "insert",
                           ![s].fotoPerfilUrl = SecureUrl("ponto-urbano-perfil", fileSeq')]
              /\ resp' = Silent
  /\ UNCHANGED <<variant, usuarios, problemas, now, uploads, session, nreq, began>>

\* cloudinary.uploader.upload(dataURI, { folder: 'ponto-urbano-perfil', ... })
CadastroUpload(s) ==
  /\ req[s].route = "cadastro" /\ req[s].pc = "upload"
  /\ \E ok \in BOOLEAN :
       IF ~ok
         THEN /\ Answer(s, ErroUploadPerfil)
              /\ UNCHANGED <<remote, fileSeq>>
         ELSE /\ fileSeq' = fileSeq + 1
              /\ remote' = remote \cup {<<"ponto-urbano-perfil", fileSeq'>>}
              /\ req' = [req EXCEPT ![s].pc = "insert",
                           ![s].fotoPerfilUrl = SecureUrl("ponto-urbano-perfil", fileSeq')]
              /\ resp' = Silent
  /\ UNCHANGED <<variant, usuarios, problemas, now, uploads, session, nreq, began>>

\* INSERT INTO usuarios (nome, email, senha[, foto_perfil]) VALUES (...)
InsertUsuario(nome, email, senha, foto) ==
  Append(usuarios, [id |-> Len(usuarios) + 1, nome |-> nome, email |-> email,
                    senha |-> senha, foto_perfil |-> foto])

PublicUser(u) ==
  IF variant = "cloud"
    THEN [id |-> u.id, nome |-> u.nome, email |-> u.email, foto_perfil |-> u.foto_perfil]
    ELSE [id |-> u.id, nome |-> u.nome, email |-> u.email]

CadastroCreated(u) ==
  IF variant = "cloud"
    THEN [status |-> 201, json |-> "object", body |-> [success |-> TRUE, message |-> "Usuário criado com sucesso",
                                    user |-> PublicUser(u)]]
    ELSE Reply(201, TRUE, "Usuário criado com sucesso")

\* bcrypt.hash(senha, 10), then the INSERT (the store applies the UNIQUE
\* constraint of the email column) and the response.
CadastroInsert(s) ==
  /\ req[s].route = "cadastro" /\ req[s].pc = "insert"
  /\ \E ok \in BOOLEAN, salt \in Salts :
       IF ~ok
         THEN /\ Answer(s, ErroCriarUsuario(StoreDown))
              /\ UNCHANGED usuarios
       ELSE IF ~EmailUnique(req[s].email)
         THEN /\ Answer(s, ErroCriarUsuario(DuplicateKey))
              /\ UNCHANGED usuarios
       ELSE /\ usuarios' = InsertUsuario(req[s].nome, req[s].email,
                                         bcryptHash(req[s].senha, salt),
                                         IF variant = "cloud" THEN req[s].fotoPerfilUrl ELSE NoFoto)
            /\ Answer(s, CadastroCreated(usuarios'[Len(usuarios')]))
  /\ UNCHANGED <<variant, problemas, now, uploads, remote, fileSeq,
                 session, nreq, began>>

(* ------------------------------ POST /login ---------------------------- *)
LoginStart(s) ==
  /\ Receive(s)
  /\ nreq' = nreq + 1
  /\ \E email \in {Undef} \cup Emails, senha \in {Undef} \cup Senhas :
       IF Falsy(email) \/ Falsy(senha)
         THEN Answer(s, LoginObrigatorios)
         ELSE /\ req' = [req EXCEPT ![s] =
                   [route |-> "login", pc |-> "select", email |-> email, senha |-> senha]]
              /\ resp' = Silent
  /\ UNCHANGED <<variant, usuarios, problemas, now, uploads, remote, fileSeq,
                 session, began>>

\* SELECT * FROM usuarios WHERE email = ?
LoginSelect(s) ==
  /\ req[s].route = "login" /\ req[s].pc = "select"
  /\ \E ok \in BOOLEAN :
       LET users == SelectByEmail(req[s].email)
       IN IF ~ok THEN Answer(s, ErroLogin)
          ELSE IF Len(users) = 0 THEN Answer(s, LoginUnknownEmail)
          ELSE /\ req' = [req EXCEPT ![s] =
                    [route |-> "login", pc |-> "compare", email |-> req[s].email,
                     senha |-> req[s].senha, user |-> users[1]]]
               /\ resp' = Silent
  /\ UNCHANGED <<variant, usuarios, problemas, now, uploads, remote, fileSeq,
                 session, nreq, began>>

\* mutant: the session caches the email where the name belongs
LoginSessionSwapped(user) ==
  [userId |-> user.id, userName |-> user.email, userEmail |-> user.email]

\* req.session.userId = user.id; .userName = user.nome; .userEmail = user.email
LoginSession(user) ==
  [userId |-> user.id, userName |-> user.nome, userEmail |-> user.email]

LoginOk(user) ==
  [status |-> 200, json |-> "object", body |-> [success |-> TRUE, message |-> "Login realizado com sucesso",
                             user |-> PublicUser(user)]]

\* mutant: a wrong password also discards the identity the session held
LoginCompareClearsOnFailure(s) ==
  /\ req[s].route = "login" /\ req[s].pc = "compare"
  /\ IF ~bcryptCompare(req[s].senha, req[s].user.senha)
       THEN /\ Answer(s, LoginWrongPassword)
            /\ session' = [session EXCEPT ![s] = NoSession]
       ELSE /\ session' = [session EXCEPT ![s] = LoginSession(req[s].user)]
            /\ Answer(s, LoginOk(req[s].user))
  /\ UNCHANGED <<variant, usuarios, problemas, now, uploads, remote, fileSeq,
                 nreq, began>>

\* bcrypt.compare(senha, user.senha), then the session and the response.
LoginCompare(s) ==
  /\ req[s].route = "login" /\ req[s].pc = "compare"
  /\ IF ~bcryptCompare(req[s].senha, req[s].user.senha)
       THEN /\ Answer(s, LoginWrongPassword)
            /\ UNCHANGED session
       ELSE /\ session' = [session EXCEPT ![s] = LoginSession(req[s].user)]
            /\ Answer(s, LoginOk(req[s].user))
  /\ UNCHANGED <<variant, usuarios, problemas, now, uploads, remote, fileSeq,
                 nreq, began>>

(* ------------------------ POST /logout, GET /auth/check ---------------- *)
\* mutant: the handler clears the cookie and answers without destroying the session
LogoutKeepsSession(s) ==
  /\ Receive(s)
  /\ nreq' = nreq + 1
  /\ Answer(s, LogoutOk)
  /\ UNCHANGED <<variant, usuarios, problemas, now, uploads, remote, fileSeq, session, began>>

\* req.session.destroy(cb): the default in-process session store never
\* reports an error, so cb always runs with err undefined.
Logout(s) ==
  /\ Receive(s)
  /\ nreq' = nreq + 1
  /\ session' = [session EXCEPT ![s] = NoSession]
  /\ Answer(s, LogoutOk)
  /\ UNCHANGED <<variant, usuarios, problemas, now, uploads, remote, fileSeq, began>>

AuthCheckReply(sess) ==
  IF sess.userId # 0
    THEN [status |-> 200, json |-> "object", body |-> [authenticated |-> TRUE,
            user |-> [id |-> sess.userId, nome |-> sess.userName, email |-> sess.userEmail]]]
    ELSE [status |-> 200, json |-> "object", body |-> [authenticated |-> FALSE]]

AuthCheck(s) ==
  /\ Receive(s)
  /\ nreq' = nreq + 1
  /\ Answer(s, AuthCheckReply(session[s]))
  /\ UNCHANGED <<variant, usuarios, problemas, now, uploads, remote, fileSeq,
                 session, began>>

(* ------------------------ GET /usuario/:id, unmatched routes ----------- *)
UsuarioNaoEncontrado == Reply(404, FALSE, "Usuário não encontrado")
ErroBuscarUsuario == ReplyErr(500, "Erro ao buscar usuário", StoreDown)
RotaNaoEncontrada == Reply(404, FALSE, "Rota não encontrada")

\* SELECT id, nome, email, foto_perfil FROM usuarios WHERE id = $1
UsuariosById(id) == SelectSeq(usuarios, LAMBDA u : u.id = id)

\* res.json({ success: true, user: result.rows[0] })
UsuarioEncontrado(u) ==
  [status |-> 200, json |-> "object", body |-> [success |-> TRUE, user |-> PublicUser(u)]]

\* GET /usuario/:id (cloud profile; no guard)
GetUsuario(s) ==
  /\ variant = "cloud"
  /\ Receive(s)
  /\ nreq' = nreq + 1
  /\ \E ok \in BOOLEAN, id \in 1..(Len(usuarios) + 1) :
       LET rows == UsuariosById(id)
       IN IF ~ok THEN Answer(s, ErroBuscarUsuario)
          ELSE IF Len(rows) = 0 THEN Answer(s, UsuarioNaoEncontrado)
          ELSE Answer(s, UsuarioEncontrado(rows[1]))
  /\ UNCHANGED <<variant, usuarios, problemas, now, uploads, remote, fileSeq,
                 session, began>>

\* app.use((req, res) => res.status(404).json(...)): a request no route matches
RotaDesconhecida(s) ==
  /\ Receive(s)
  /\ nreq' = nreq + 1
  /\ Answer(s, RotaNaoEncontrada)
  /\ UNCHANGED <<variant, usuarios, problemas, now, uploads, remote, fileSeq,
                 session, began>>

(* ------------------------------ GET /problemas ------------------------ *)
ErroBuscarProblemas == ReplyErr(500, "Erro ao buscar problemas", StoreDown)

\* One result row.  cloud: p.*, u.nome as usuario_nome, u.foto_perfil as
\* usuario_foto_perfil ... LEFT JOIN usuarios u ON p.usuario_id = u.id
\* (SQL NULL where no user matches); disk: SELECT * of a table that has no
\* usuario_id column.
ListRow(p) ==
  IF variant = "cloud"
    THEN LET us == UsuariosById(p.usuario_id)
         IN [id |-> p.id, campos |-> p.campos, foto |-> p.foto,
             created_at |-> p.created_at, usuario_id |-> p.usuario_id,
             usuario_nome |-> IF Len(us) > 0 THEN us[1].nome ELSE Null,
             usuario_foto_perfil |-> IF Len(us) > 0 THEN us[1].foto_perfil ELSE NoFoto]
    ELSE [id |-> p.id, campos |-> p.campos, foto |-> p.foto, created_at |-> p.created_at]

\* ORDER BY created_at DESC: every arrangement of the rows in which
\* created_at never increases; rows with equal created_at come back in an
\* order the store chooses.
Orderings(rows) ==
  {f \in [1..Len(rows) -> 1..Len(rows)] : \A i, j \in 1..Len(rows) : i # j => f[i] # f[j]}
OrderByCreatedAtDesc(rows) ==
  {f \in Orderings(rows) :
     \A i, j \in 1..Len(rows) : i < j => rows[f[i]].created_at >= rows[f[j]].created_at}

ListProblemas(s) ==
  /\ Receive(s)
  /\ nreq' = nreq + 1
  /\ \E ok \in BOOLEAN :
       IF ~ok THEN Answer(s, ErroBuscarProblemas)
       ELSE \E f \in OrderByCreatedAtDesc(problemas) :
              Answer(s, [status |-> 200, json |-> "array",
                         body |-> [i \in 1..Len(problemas) |-> ListRow(problemas[f[i]])]])
  /\ UNCHANGED <<variant, usuarios, problemas, now, uploads, remote, fileSeq,
                 session, began>>

(* ------------------------------ POST /problemas ----------------------- *)
Campos == {"tipo", "descricao", "data", "latitude", "longitude", "categoria"}
CamposCompletos ==
  [tipo |-> "buraco", descricao |-> "texto", data |-> "2025-01-01",
   latitude |-> "-23.5", longitude |-> "-46.6", categoria |-> "vias"]
\* the bodies a client sends: complete, or with one field absent; null and ""
\* are tried on one field of each kind of test (!x and x == null)
Bodies ==
  {CamposCompletos} \cup
  {[CamposCompletos EXCEPT ![c] = Undef] : c \in Campos} \cup
  {[CamposCompletos EXCEPT ![c] = v] : c \in {"tipo", "latitude", "longitude"}, v \in {Null}} \cup
  {[CamposCompletos EXCEPT ![c] = Empty] : c \in {"tipo", "latitude"}}

\* mutant: the validation leaves latitude out
CamposInvalidosSemLatitude(b) ==
  \/ Falsy(b.tipo) \/ Falsy(b.descricao) \/ Falsy(b.data)
  \/ Nullish(b.longitude) \/ Falsy(b.categoria)

\* if (!tipo || !descricao || !data || latitude == null || longitude == null || !categoria)
CamposInvalidos(b) ==
  \/ Falsy(b.tipo) \/ Falsy(b.descricao) \/ Falsy(b.data)
  \/ Nullish(b.latitude) \/ Nullish(b.longitude) \/ Falsy(b.categoria)

\* column types of problemas: the NUMERIC columns reject a non-numeric text
ColunasOk(b) == b.latitude # Empty /\ b.longitude # Empty

ErroUploadImagem == ReplyErr(500, "Erro ao fazer upload da imagem", HostDown)
ErroSalvarProblema == ReplyErr(500, "Erro ao salvar problema", StoreDown)
ProblemaRegistrado(id, foto) ==
  [status |-> 201, json |-> "object", body |-> [success |-> TRUE, message |-> "Problema registrado com sucesso",
                             id |-> id, foto |-> foto]]

\* requireAuth; the multipart body then reaches the upload middleware.
SubmitStart(s) ==
  /\ Receive(s)
  /\ nreq' = nreq + 1
  /\ IF ~requireAuth(s)
       THEN Answer(s, NaoAutorizado)
       ELSE \E b \in Bodies, file \in FilesSent :
              /\ req' = [req EXCEPT ![s] =
                   [route |-> "problemas", pc |-> "multer", campos |-> b, file |-> file,
                    foto |-> NoFoto, usuario_id |-> 0, began |-> Len(problemas)]]
              /\ resp' = Silent
  /\ UNCHANGED <<variant, usuarios, problemas, now, uploads, remote, fileSeq,
                 session, began>>

\* upload.single('foto'), then the handler up to its first await.  disk:
\* multer has written the file before the handler validates, and the handler
\* unlinks it when validation fails.
SubmitHandler(s) ==
  /\ req[s].route = "problemas" /\ req[s].pc = "multer"
  /\ LET b == req[s].campos
         file == req[s].file
         written == variant = "disk" /\ file # NoFile
         name == IF written THEN fileSeq + 1 ELSE 0
     IN IF UploadGuard(file) # "ok"
          THEN /\ Answer(s, UploadRejected(file))
               /\ UNCHANGED <<uploads, fileSeq>>
          ELSE /\ fileSeq' = IF written THEN fileSeq + 1 ELSE fileSeq
               /\ IF CamposInvalidos(b)
                    THEN /\ Answer(s, CamposObrigatorios)
                         /\ uploads' = (uploads \cup (IF written THEN {name} ELSE {})) \ {name}
                    ELSE /\ uploads' = uploads \cup (IF written THEN {name} ELSE {})
                         /\ req' = [req EXCEPT
                              ![s].pc = IF variant = "cloud" /\ file # NoFile
                                          THEN "cloudinary" ELSE "insert",
                              ![s].foto = IF written THEN LocalPath(name) ELSE NoFoto,
                              ![s].usuario_id = IF variant = "cloud" THEN session[s].userId ELSE 0]
                         /\ resp' = Silent
  /\ UNCHANGED <<variant, usuarios, problemas, now, remote, session, nreq, began>>

\* cloudinary.uploader.upload(dataURI, { folder: 'ponto-urbano', ... })
SubmitUpload(s) ==
  /\ req[s].route = "problemas" /\ req[s].pc = "cloudinary"
  /\ \E ok \in BOOLEAN :
       IF ~ok
         THEN /\ Answer(s, ErroUploadImagem)
              /\ UNCHANGED <<remote, fileSeq>>
         ELSE /\ fileSeq' = fileSeq + 1
              /\ remote' = remote \cup {<<"ponto-urbano", fileSeq'>>}
              /\ req' = [req EXCEPT ![s].pc = "insert",
                                    ![s].foto = SecureUrl("ponto-urbano", fileSeq')]
              /\ resp' = Silent
  /\ UNCHANGED <<variant, usuarios, problemas, now, uploads, session, nreq, began>>

\* mutant: the INSERT leaves the owner column out
InsertProblemaSemDono(campos, foto, usuario_id) ==
  Append(problemas, [id |-> Len(problemas) + 1, campos |-> campos, foto |-> foto,
                     usuario_id |-> 0, created_at |-> now])

\* INSERT INTO problemas (...) VALUES (...), created_at DEFAULT CURRENT_TIMESTAMP
InsertProblema(campos, foto, usuario_id) ==
  Append(problemas, [id |-> Len(problemas) + 1, campos |-> campos, foto |-> foto,
                     usuario_id |-> usuario_id, created_at |-> now])

\* mutant: the catch block answers without unlinking the uploaded file
SubmitInsertSemUnlink(s) ==
  /\ req[s].route = "problemas" /\ req[s].pc = "insert"
  /\ \E ok \in BOOLEAN :
       IF ok /\ ColunasOk(req[s].campos)
         THEN /\ problemas' = InsertProblema(req[s].campos, req[s].foto, req[s].usuario_id)
              /\ began' = Append(began, req[s].began)
              /\ Answer(s, ProblemaRegistrado(Len(problemas'), req[s].foto))
         ELSE /\ Answer(s, ErroSalvarProblema)
              /\ UNCHANGED <<problemas, began>>
  /\ UNCHANGED <<variant, usuarios, now, uploads, remote, fileSeq, session, nreq>>

\* The INSERT and the response; disk: the catch block unlinks the file.
SubmitInsert(s) ==
  /\ req[s].route = "problemas" /\ req[s].pc = "insert"
  /\ \E ok \in BOOLEAN :
       IF ok /\ ColunasOk(req[s].campos)
         THEN /\ problemas' = InsertProblema(req[s].campos, req[s].foto, req[s].usuario_id)
              /\ began' = Append(began, req[s].began)
              /\ Answer(s, ProblemaRegistrado(Len(problemas'), req[s].foto))
              /\ UNCHANGED uploads
         ELSE /\ uploads' = IF variant = "disk" /\ req[s].file # NoFile
                              THEN uploads \ {req[s].foto.name} ELSE uploads
              /\ Answer(s, ErroSalvarProblema)
              /\ UNCHANGED <<problemas, began>>
  /\ UNCHANGED <<variant, usuarios, now, remote, fileSeq, session, nreq>>

(* -------------------------------- PUT /perfil ------------------------- *)
ErroAtualizarPerfil(error) == ReplyErr(500, "Erro ao atualizar perfil", error)
PerfilAtualizado(u) ==
  [status |-> 200, json |-> "object", body |-> [success |-> TRUE, message |-> "Perfil atualizado com sucesso",
                             user |-> PublicUser(u)]]

\* requireAuth, upload.single('foto_perfil'), then the handler up to its first await.
PerfilStart(s) ==
  /\ variant = "cloud"
  /\ Receive(s)
  /\ nreq' = nreq + 1
  /\ IF ~requireAuth(s) THEN Answer(s, NaoAutorizado)
     ELSE \E nome \in {Undef, "Ana", "Bia"}, file \in FilesSent :
       IF UploadGuard(file) # "ok" THEN Answer(s, UploadRejected(file))
       ELSE /\ req' = [req EXCEPT ![s] =
                 [route |-> "perfil", pc |-> IF file # NoFile THEN "upload" ELSE "update",
                  nome |-> nome, file |-> file, userId |-> session[s].userId,
                  fotoPerfilUrl |-> NoFoto]]
            /\ resp' = Silent
  /\ UNCHANGED <<variant, usuarios, problemas, now, uploads, remote, fileSeq,
                 session, began>>

\* cloudinary.uploader.upload(dataURI, { folder: 'ponto-urbano-perfil', ... })
PerfilUpload(s) ==
  /\ req[s].route = "perfil" /\ req[s].pc = "upload"
  /\ \E ok \in BOOLEAN :
       IF ~ok
         THEN /\ Answer(s, ErroUploadPerfil)
              /\ UNCHANGED <<remote, fileSeq>>
         ELSE /\ fileSeq' = fileSeq + 1
              /\ remote' = remote \cup {<<"ponto-urbano-perfil", fileSeq'>>}
              /\ req' = [req EXCEPT ![s].pc = "update",
                           ![s].fotoPerfilUrl = SecureUrl("ponto-urbano-perfil", fileSeq')]
              /\ resp' = Silent
  /\ UNCHANGED <<variant, usuarios, problemas, now, uploads, session, nreq, began>>

\* mutant: the UPDATE without its WHERE clause
UpdateUsuarioTodos(userId, nome, foto) ==
  [i \in 1..Len(usuarios) |->
     [usuarios[i] EXCEPT !.nome = nome,
                         !.foto_perfil = IF foto # NoFoto THEN foto ELSE @]]

\* UPDATE usuarios SET nome = $1[, foto_perfil = $2] WHERE id = $n
UpdateUsuario(userId, nome, foto) ==
  [i \in 1..Len(usuarios) |->
     IF usuarios[i].id = userId
       THEN [usuarios[i] EXCEPT !.nome = nome,
                                !.foto_perfil = IF foto # NoFoto THEN foto ELSE @]
       ELSE usuarios[i]]

\* The UPDATE ... RETURNING id, nome, email, foto_perfil as the store runs it
\* (nome is NOT NULL; an undefined parameter is sent as NULL).  The handler
\* is suspended on the await until the result arrives.
PerfilUpdate(s) ==
  /\ req[s].route = "perfil" /\ req[s].pc = "update"
  /\ \E ok \in BOOLEAN :
       IF ~ok
         THEN /\ Answer(s, ErroAtualizarPerfil(StoreDown))
              /\ UNCHANGED usuarios
       ELSE IF Nullish(req[s].nome)
         THEN /\ Answer(s, ErroAtualizarPerfil(NotNullViolation))
              /\ UNCHANGED usuarios
       ELSE /\ usuarios' = UpdateUsuario(req[s].userId, req[s].nome, req[s].fotoPerfilUrl)
            /\ req' = [req EXCEPT ![s] =
                 [route |-> "perfil", pc |-> "respond", nome |-> req[s].nome,
                  file |-> req[s].file, userId |-> req[s].userId,
                  fotoPerfilUrl |-> req[s].fotoPerfilUrl,
                  updatedUser |-> usuarios'[req[s].userId]]]
            /\ resp' = Silent
  /\ UNCHANGED <<variant, problemas, now, uploads, remote, fileSeq, session, nreq, began>>

\* mutant: the handler answers without refreshing the session's cached name
PerfilRespondSemSessao(s) ==
  /\ req[s].route = "perfil" /\ req[s].pc = "respond"
  /\ Answer(s, PerfilAtualizado(req[s].updatedUser))
  /\ UNCHANGED <<variant, usuarios, problemas, now, uploads, remote, fileSeq, session, nreq, began>>

\* The handler resumes with the row the UPDATE returned:
\* req.session.userName = updatedUser.nome, and the response.
PerfilRespond(s) ==
  /\ req[s].route = "perfil" /\ req[s].pc = "respond"
  /\ session' = [session EXCEPT ![s].userName = req[s].updatedUser.nome]
  /\ Answer(s, PerfilAtualizado(req[s].updatedUser))
  /\ UNCHANGED <<variant, usuarios, problemas, now, uploads, remote, fileSeq, nreq, began>>

(* ------------------------- DELETE /problemas/:id/foto ------------------ *)
ProblemaNaoEncontrado == Reply(404, FALSE, "Problema não encontrado")
FotoRemovida == Reply(200, TRUE, "Foto removida com sucesso")
ErroRemoverFoto(error) == ReplyErr(500, "Erro ao remover foto", error)

\* mutant: the lookup without its WHERE clause
ProblemasTodos(id) == problemas

\* SELECT foto FROM problemas WHERE id = $1
ProblemasById(id) == SelectSeq(problemas, LAMBDA p : p.id = id)

DeleteFotoStart(s) ==
  /\ variant = "cloud"
  /\ Receive(s)
  /\ nreq' = nreq + 1
  /\ IF ~requireAuth(s) THEN Answer(s, NaoAutorizado)
     ELSE \E id \in 1..(Len(problemas) + 1) :
            /\ req' = [req EXCEPT ![s] =
                 [route |-> "foto", pc |-> "select", problemaId |-> id, fotoUrl |-> NoFoto]]
            /\ resp' = Silent
  /\ UNCHANGED <<variant, usuarios, problemas, now, uploads, remote, fileSeq,
                 session, began>>

DeleteFotoSelect(s) ==
  /\ req[s].route = "foto" /\ req[s].pc = "select"
  /\ \E ok \in BOOLEAN :
       LET rows == ProblemasById(req[s].problemaId)
       IN IF ~ok THEN Answer(s, ErroRemoverFoto(StoreDown))
          ELSE IF Len(rows) = 0 THEN Answer(s, ProblemaNaoEncontrado)
          ELSE /\ req' = [req EXCEPT ![s].fotoUrl = rows[1].foto,
                            ![s].pc = IF rows[1].foto.host = "res.cloudinary.com"
                                        THEN "destroy" ELSE "update"]
               /\ resp' = Silent
  /\ UNCHANGED <<variant, usuarios, problemas, now, uploads, remote, fileSeq,
                 session, nreq, began>>

\* publicId = 'ponto-urbano/' + filename.split('.')[0]; cloudinary.uploader.destroy(publicId)
DeleteFotoDestroy(s) ==
  /\ req[s].route = "foto" /\ req[s].pc = "destroy"
  /\ \E ok \in BOOLEAN :
       IF ~ok
         THEN /\ Answer(s, ErroRemoverFoto(HostDown))
              /\ UNCHANGED remote
         ELSE /\ remote' = remote \ {<<"ponto-urbano", req[s].fotoUrl.name>>}
              /\ req' = [req EXCEPT ![s].pc = "update"]
              /\ resp' = Silent
  /\ UNCHANGED <<variant, usuarios, problemas, now, uploads, fileSeq, session, nreq, began>>

\* mutant: the UPDATE without its WHERE clause
ClearFotoTodos(id) ==
  [i \in 1..Len(problemas) |-> [problemas[i] EXCEPT !.foto = NoFoto]]

\* UPDATE problemas SET foto = NULL WHERE id = $1
ClearFoto(id) ==
  [i \in 1..Len(problemas) |->
     IF problemas[i].id = id THEN [problemas[i] EXCEPT !.foto = NoFoto] ELSE problemas[i]]

DeleteFotoUpdate(s) ==
  /\ req[s].route = "foto" /\ req[s].pc = "update"
  /\ \E ok \in BOOLEAN :
       IF ~ok
         THEN /\ Answer(s, ErroRemoverFoto(StoreDown))
              /\ UNCHANGED problemas
         ELSE /\ problemas' = ClearFoto(req[s].problemaId)
              /\ Answer(s, FotoRemovida)
  /\ UNCHANGED <<variant, usuarios, now, uploads, remote, fileSeq, session, nreq, began>>

Next ==
  \/ Tick
  \/ \E s \in Sessions : CadastroStart(s)
  \/ \E s \in Sessions : CadastroSelect(s)
  \/ \E s \in Sessions : CadastroUpload(s)
  \/ \E s \in Sessions : CadastroInsert(s)
  \/ \E s \in Sessions : LoginStart(s)
  \/ \E s \in Sessions : LoginSelect(s)
  \/ \E s \in Sessions : LoginCompare(s)
  \/ \E s \in Sessions : Logout(s)
  \/ \E s \in Sessions : AuthCheck(s)
  \/ \E s \in Sessions : GetUsuario(s)
  \/ \E s \in Sessions : RotaDesconhecida(s)
  \/ \E s \in Sessions : ListProblemas(s)
  \/ \E s \in Sessions : SubmitStart(s)
  \/ \E s \in Sessions : SubmitHandler(s)
  \/ \E s \in Sessions : SubmitUpload(s)
  \/ \E s \in Sessions : SubmitInsert(s)
  \/ \E s \in Sessions : PerfilStart(s)
  \/ \E s \in Sessions : PerfilUpload(s)
  \/ \E s \in Sessions : PerfilUpdate(s)
  \/ \E s \in Sessions : PerfilRespond(s)
  \/ \E s \in Sessions : DeleteFotoStart(s)
  \/ \E s \in Sessions : DeleteFotoSelect(s)
  \/ \E s \in Sessions : DeleteFotoDestroy(s)
  \/ \E s \in Sessions : DeleteFotoUpdate(s)

Spec == Init /\ [][Next]_vars

(* ======================================================================= *)
(*                               properties                                *)
(* ======================================================================= *)
\* The response a property expects, written out field by field.
Expect(status, success, message) ==
  [status |-> status, json |-> "object", body |-> [success |-> success, message |-> message]]

\* The response reports that a collaborator (store, image host) was unavailable.
Outage(r) ==
  /\ r.json = "object"
  /\ "error" \in DOMAIN r.body
  /\ r.body.error \in {"store unavailable", "image host unavailable"}

ErrorIs(r, status, message, error) ==
  r = [status |-> status, json |-> "object",
       body |-> [success |-> FALSE, message |-> message, error |-> error]]

\* Session s takes a step of its request in flight on `route` at `pc`.
Steps(s, route, pc) ==
  /\ req[s].route = route /\ req[s].pc = pc
  /\ req'[s] # req[s]

Answered(s) == req'[s].route = "idle" /\ resp'.sid = s

Registered(email) == \E i \in 1..Len(usuarios) : usuarios[i].email = email

(* ------------------------------- C1 ------------------------------------ *)
\* C1: in every reachable state, under any interleaving of concurrent
\* POST /cadastro requests (a uniqueness SELECT followed later by an INSERT),
\* the user table never holds two rows with the same email.
C1_EmailNeverTwice ==
  \A i, j \in 1..Len(usuarios) : i # j => usuarios[i].email # usuarios[j].email

\* Two registrations of one email both passed the pre-check; the store
\* accepted one INSERT and has just rejected the other.
C1_Witness ==
  /\ ErrorIs(resp.reply, 500, "Erro ao criar usuário", "duplicate key violates unique constraint")
  /\ Len(usuarios) >= 1

(* ------------------------------- C2 ------------------------------------ *)
\* C2 as stated: every POST /cadastro (name, email, password present) that
\* creates no row because its email already belongs to a stored user is
\* answered 400 'E-mail já cadastrado', for sequential requests and for every
\* interleaving of two concurrent registrations of the same email.
C2_AlwaysConflictResponse ==
  [][\A s \in Sessions :
       (/\ req[s].route = "cadastro"
        /\ Answered(s)
        /\ Registered(req[s].email)
        /\ ~Outage(resp'.reply))
       => resp'.reply = Expect(400, FALSE, "E-mail já cadastrado")]_vars

\* C2 amended: a registration whose email is stored when its uniqueness
\* SELECT runs is answered 400 'E-mail já cadastrado'; one whose email is
\* stored by a concurrent registration between its SELECT and its INSERT is
\* answered 500 'Erro ao criar usuário' (the store's uniqueness violation);
\* neither creates a row.
C2_ConflictAtPreCheck ==
  [][\A s \in Sessions :
       /\ (Steps(s, "cadastro", "select") /\ Registered(req[s].email) /\ ~Outage(resp'.reply))
            => /\ Answered(s)
               /\ resp'.reply = Expect(400, FALSE, "E-mail já cadastrado")
               /\ usuarios' = usuarios
       /\ (Steps(s, "cadastro", "insert") /\ Registered(req[s].email) /\ ~Outage(resp'.reply))
            => /\ Answered(s)
               /\ ErrorIs(resp'.reply, 500, "Erro ao criar usuário",
                          "duplicate key violates unique constraint")
               /\ usuarios' = usuarios]_vars

\* A registration has just been refused at the pre-check while the other
\* session's registration is past its own pre-check.
C2_Witness ==
  /\ resp.reply = Expect(400, FALSE, "E-mail já cadastrado")
  /\ \E s \in Sessions : req[s].route = "cadastro" /\ req[s].pc = "insert"

(* ------------------------------- C3 ------------------------------------ *)
\* C3: for every store state, a POST /login with a registered email and a
\* wrong password and a POST /login with an unregistered email produce the
\* identical response (400, 'E-mail ou senha incorretos'), and neither
\* establishes a session.
C3_LoginFailuresIdentical ==
  [][\A s \in Sessions :
       /\ (Steps(s, "login", "select") /\ ~Registered(req[s].email) /\ ~Outage(resp'.reply))
            => /\ Answered(s)
               /\ resp'.reply = Expect(400, FALSE, "E-mail ou senha incorretos")
               /\ session' = session
       /\ (Steps(s, "login", "compare") /\ req[s].user.senha.digest[2] # req[s].senha)
            => /\ Answered(s)
               /\ resp'.reply = Expect(400, FALSE, "E-mail ou senha incorretos")
               /\ session' = session]_vars

\* The generic failure has just been sent while both emails are registered
\* (so the password was wrong) to a session that holds no identity.
C3_Witness ==
  /\ resp.reply = Expect(400, FALSE, "E-mail ou senha incorretos")
  /\ \A e \in Emails : Registered(e)
  /\ session[resp.sid].userId = 0

(* ------------------------------- C4 ------------------------------------ *)
\* The password presented is the one the hash read by the login was made from.
PasswordMatches(s) == req[s].user.senha.digest[2] = req[s].senha

\* C4 as stated: immediately after any successful POST /login, the session of
\* that request holds userId, userName and userEmail equal to the id, name and
\* email of the stored user row whose email and password were presented,
\* whatever the session held before.
C4_SessionEqualsStoredRow ==
  [][\A s \in Sessions :
       (Steps(s, "login", "compare") /\ PasswordMatches(s))
       => \E i \in 1..Len(usuarios') :
            /\ usuarios'[i].email = req[s].email
            /\ session'[s] = [userId |-> usuarios'[i].id, userName |-> usuarios'[i].nome,
                              userEmail |-> usuarios'[i].email]]_vars

\* C4 amended: immediately after any successful POST /login the session holds
\* userId and userEmail equal to the id and email of the stored row whose
\* email and password were presented, and userName equal to the name that row
\* had when the login's SELECT read it, whatever the session held before; the
\* name is the stored one in the profiles without PUT /perfil.
C4_SessionEqualsRowRead ==
  [][\A s \in Sessions :
       (Steps(s, "login", "compare") /\ PasswordMatches(s))
       => /\ Answered(s)
          /\ resp'.reply.status = 200
          /\ \E i \in 1..Len(usuarios') :
               /\ usuarios'[i].email = req[s].email
               /\ session'[s] = [userId |-> usuarios'[i].id, userName |-> req[s].user.nome,
                                 userEmail |-> usuarios'[i].email]
               /\ variant = "disk" => session'[s].userName = usuarios'[i].nome]_vars

\* A login has just succeeded on a session whose cached name is no longer
\* the stored one: the user was renamed while the login was in flight.
C4_Witness ==
  /\ resp.reply.status = 200 /\ resp.reply.json = "object"
  /\ "message" \in DOMAIN resp.reply.body
  /\ resp.reply.body.message = "Login realizado com sucesso"
  /\ \E i \in 1..Len(usuarios) :
       /\ usuarios[i].id = session[resp.sid].userId
       /\ usuarios[i].email = session[resp.sid].userEmail
       /\ usuarios[i].nome # session[resp.sid].userName

(* ------------------------------- C5 ------------------------------------ *)
\* C5: a request without a session userId to any guarded operation
\* (POST /problemas, PUT /perfil, DELETE /problemas/:id/foto) is answered 401
\* and changes nothing: no report row, user row, local file or remote image is
\* created, changed or deleted; the guard runs before the upload step and the
\* handler.
C5_GuardRejectsFirst ==
  [][\A s \in Sessions :
       (session[s].userId = 0 /\ (SubmitStart(s) \/ PerfilStart(s) \/ DeleteFotoStart(s)))
       => /\ resp' = [sid |-> s, reply |-> Expect(401, FALSE, "Não autorizado. Faça login primeiro.")]
          /\ req'[s].route = "idle"
          /\ UNCHANGED <<usuarios, problemas, uploads, remote, fileSeq, session>>]_vars

\* A 401 has just gone to a session without identity while a report exists
\* that the request could have touched.
C5_Witness ==
  /\ resp.reply = Expect(401, FALSE, "Não autorizado. Faça login primeiro.")
  /\ session[resp.sid].userId = 0
  /\ Len(problemas) >= 1

(* ------------------------------- C6 ------------------------------------ *)
MissingField(b) == \E c \in Campos : b[c] \in {"undefined", "null"}

\* C6 as stated: an authenticated POST /problemas in which any of type,
\* description, date, latitude, longitude or category is absent or null is
\* answered 400, and after the response no report row has been added and no
\* file of that request remains on local disk or on the image host, whether
\* or not a photo was attached.
C6_MissingFieldIs400 ==
  [][\A s \in Sessions :
       (Steps(s, "problemas", "multer") /\ MissingField(req[s].campos))
       => /\ Answered(s)
          /\ resp'.reply = Expect(400, FALSE, "Todos os campos são obrigatórios")
          /\ problemas' = problemas /\ uploads' = uploads /\ remote' = remote]_vars

\* C6 amended: such a request is answered 400 'Todos os campos são
\* obrigatórios' unless the upload guard of the image-host profile rejects
\* the attached file first (a non-image: 500 'Erro interno no servidor'; an
\* image above 5MB: 400 'A imagem deve ter no máximo 5MB'); in every case no
\* report row is added and no file of the request remains on disk or host.
C6_MissingFieldRejected ==
  [][\A s \in Sessions :
       (Steps(s, "problemas", "multer") /\ MissingField(req[s].campos))
       => /\ Answered(s)
          /\ IF variant = "cloud" /\ req[s].file = "text/plain"
               THEN ErrorIs(resp'.reply, 500, "Erro interno no servidor",
                            "Apenas arquivos de imagem são permitidos!")
             ELSE IF variant = "cloud" /\ req[s].file = "image/big"
               THEN resp'.reply = Expect(400, FALSE, "A imagem deve ter no máximo 5MB")
             ELSE resp'.reply = Expect(400, FALSE, "Todos os campos são obrigatórios")
          /\ problemas' = problemas /\ uploads' = uploads /\ remote' = remote]_vars

\* Disk profile: the validation has just refused a request whose photo the
\* upload step had written; the file is gone again.
C6_Witness ==
  /\ resp.reply = Expect(400, FALSE, "Todos os campos são obrigatórios")
  /\ variant = "disk" /\ fileSeq >= 1 /\ uploads = {} /\ problemas = <<>>

(* ------------------------------- C7 ------------------------------------ *)
\* Place of report k in the array a GET /problemas has just returned.
Place(k) == CHOOSE n \in 1..Len(resp.reply.body) : resp.reply.body[n].id = problemas[k].id

\* C7: for any two reports R1 and R2 where the submission of R1 completed
\* before the submission of R2 began, every later GET /problemas returns R2
\* before R1, also when both rows receive the same created_at value.
C7_LaterReportFirst ==
  resp.reply.json = "array"
  => \A i, j \in 1..Len(problemas) : i <= began[j] => Place(j) < Place(i)

(* ------------------------------- C8 ------------------------------------ *)
\* C8: in the ownership-tracking profile, after registering user U, logging
\* in as U and successfully submitting report R in that session, every later
\* GET /problemas contains R with usuario_id equal to U's id and usuario_nome
\* equal to U's display name as currently stored, including after U changes
\* the name through PUT /perfil.
C8_OwnerRoundTrip ==
  /\ [][variant = "cloud" =>
         /\ \A s \in Sessions :
              (Steps(s, "problemas", "insert") /\ Len(problemas') = Len(problemas) + 1)
              => \E i \in 1..Len(usuarios) :
                   /\ usuarios[i].email = session[s].userEmail
                   /\ problemas'[Len(problemas')].usuario_id = usuarios[i].id
         /\ \A k \in 1..Len(problemas) :
              /\ Len(problemas') >= k
              /\ problemas'[k].id = problemas[k].id
              /\ problemas'[k].usuario_id = problemas[k].usuario_id]_vars
  /\ []((variant = "cloud" /\ resp.reply.json = "array")
         => \A k \in 1..Len(problemas) :
              \E n \in 1..Len(resp.reply.body), i \in 1..Len(usuarios) :
                /\ resp.reply.body[n].id = problemas[k].id
                /\ resp.reply.body[n].usuario_id = problemas[k].usuario_id
                /\ usuarios[i].id = problemas[k].usuario_id
                /\ resp.reply.body[n].usuario_nome = usuarios[i].nome)

\* A listing has just returned a report under the owner's new name.
C8_Witness ==
  /\ variant = "cloud" /\ resp.reply.json = "array"
  /\ \E n \in 1..Len(resp.reply.body) :
       /\ resp.reply.body[n].usuario_id = 1
       /\ resp.reply.body[n].usuario_nome = "Bia"

Unauthorized(s) ==
  [sid |-> s, reply |-> Expect(401, FALSE, "Não autorizado. Faça login primeiro.")]

\* C10: after a successful POST /logout the request's session is gone: until
\* the next successful login GET /auth/check on it reports authenticated false
\* and every guarded operation is answered 401; logout is idempotent: a second
\* logout (or a logout with no session) also succeeds with 200 and leaves the
\* same no-session state.
C10_LogoutEndsSession ==
  [][\A s \in Sessions :
       /\ Logout(s)
            => /\ resp' = [sid |-> s, reply |-> Expect(200, TRUE, "Logout realizado com sucesso")]
               /\ session'[s] = [userId |-> 0, userName |-> "undefined", userEmail |-> "undefined"]
       /\ (session[s].userId = 0 /\ session'[s].userId # 0)
            => /\ Steps(s, "login", "compare")
               /\ resp'.reply.status = 200
       /\ (session[s].userId = 0 /\ AuthCheck(s))
            => resp'.reply = [status |-> 200, json |-> "object", body |-> [authenticated |-> FALSE]]
       /\ (session[s].userId = 0 /\ (SubmitStart(s) \/ PerfilStart(s) \/ DeleteFotoStart(s)))
            => resp' = Unauthorized(s)]_vars

\* A logout has just succeeded, no session holds an identity any more, and a
\* report exists: the session that submitted it has been logged out.
C10_Witness ==
  /\ resp.reply = Expect(200, TRUE, "Logout realizado com sucesso")
  /\ \A s \in Sessions : session[s].userId = 0
  /\ Len(problemas) >= 1

(* ------------------------------- C11 ----------------------------------- *)
\* C11: a POST /cadastro that supplies a profile photo whose upload to the
\* image host fails is answered with an error (500 'Erro ao fazer upload da
\* imagem de perfil') and leaves the user table unchanged: the request ends
\* there, so no row for its email exists afterwards unless another request
\* creates it.
C11_UploadFailureCreatesNoUser ==
  [][\A s \in Sessions :
       /\ (Steps(s, "cadastro", "upload") /\ remote' = remote)
            => /\ Answered(s)
               /\ ErrorIs(resp'.reply, 500, "Erro ao fazer upload da imagem de perfil",
                          "image host unavailable")
               /\ usuarios' = usuarios
       /\ (req[s].route = "cadastro" /\ Len(usuarios') > Len(usuarios) /\ req'[s] # req[s])
            => /\ req[s].pc = "insert"
               /\ req[s].file # "nofile" => req[s].fotoPerfilUrl.host = "res.cloudinary.com"]_vars

\* The upload of a registration's photo has just failed: the session holds no
\* identity (so the answer is not one of PUT /perfil), the email of the
\* request is not stored and nothing reached the image host.
C11_Witness ==
  /\ ErrorIs(resp.reply, 500, "Erro ao fazer upload da imagem de perfil", "image host unavailable")
  /\ session[resp.sid].userId = 0
  /\ ~Registered("bia@x")
  /\ remote = {}

(* ------------------------------- C12 ----------------------------------- *)
\* C12: in PUT /perfil both inputs are optional: an authenticated request
\* supplying only a photo (no name) succeeds with 200 and changes the stored
\* photo while leaving the stored display name unchanged, and one supplying
\* only a name succeeds and leaves the stored photo unchanged.
C12_BothInputsOptional ==
  [][\A s \in Sessions :
       (/\ Steps(s, "perfil", "update")
        /\ ~Outage(resp'.reply)
        /\ (req[s].nome = "undefined") # (req[s].file = "nofile"))
       => LET i == req[s].userId
          IN /\ req'[s].route = "perfil" /\ req'[s].pc = "respond"
             /\ req'[s].updatedUser = usuarios'[i]
             /\ (req[s].nome = "undefined" /\ req[s].file # "nofile")
                  => /\ usuarios'[i].nome = usuarios[i].nome
                     /\ usuarios'[i].foto_perfil = req[s].fotoPerfilUrl
             /\ (req[s].nome # "undefined" /\ req[s].file = "nofile")
                  => /\ usuarios'[i].nome = req[s].nome
                     /\ usuarios'[i].foto_perfil = usuarios[i].foto_perfil]_vars

(* ------------------------------- C13 ----------------------------------- *)
\* C13 as stated: after every successful PUT /perfil, the userName cached in
\* the requesting session equals the display name now stored in that user's
\* row, and the session's userId and userEmail are unchanged; a PUT /perfil
\* that fails leaves the session's cached name unchanged.
C13_SessionNameIsStoredName ==
  [][\A s \in Sessions :
       /\ Steps(s, "perfil", "respond")
            => /\ Answered(s)
               /\ resp'.reply.status = 200
               /\ \E i \in 1..Len(usuarios') :
                    /\ usuarios'[i].id = session[s].userId
                    /\ session'[s] = [userId |-> session[s].userId,
                                      userName |-> usuarios'[i].nome,
                                      userEmail |-> session[s].userEmail]
       /\ (req[s].route = "perfil" /\ Answered(s) /\ resp'.reply.status # 200)
            => session'[s] = session[s]]_vars

\* C13 amended: after every successful PUT /perfil the userName cached in the
\* requesting session equals the name that request's UPDATE stored, and the
\* session's userId and userEmail are unchanged and still name that user's
\* row; it equals the name now stored whenever the row is still as that UPDATE
\* left it (another request of the same user may have renamed it since); a
\* PUT /perfil that fails leaves the session unchanged.
C13_SessionNameIsNameWritten ==
  [][\A s \in Sessions :
       /\ Steps(s, "perfil", "respond")
            => /\ Answered(s)
               /\ resp'.reply.status = 200
               /\ session'[s] = [userId |-> session[s].userId,
                                 userName |-> req[s].nome,
                                 userEmail |-> session[s].userEmail]
               /\ \E i \in 1..Len(usuarios') :
                    /\ usuarios'[i].id = session[s].userId
                    /\ usuarios'[i].email = session[s].userEmail
                    /\ usuarios'[i] = req[s].updatedUser
                         => usuarios'[i].nome = session'[s].userName
       /\ (req[s].route = "perfil" /\ Answered(s) /\ resp'.reply.status # 200)
            => session'[s] = session[s]]_vars

\* A profile update has just been answered 200 to a session whose cached name
\* is not the stored one: the other session of the same user renamed the user
\* after this request's UPDATE.
C13_Witness ==
  /\ resp.reply.status = 200 /\ resp.reply.json = "object"
  /\ "message" \in DOMAIN resp.reply.body
  /\ resp.reply.body.message = "Perfil atualizado com sucesso"
  /\ \E i \in 1..Len(usuarios) :
       /\ usuarios[i].id = session[resp.sid].userId
       /\ usuarios[i].nome # session[resp.sid].userName

(* ------------------------------- C14 ----------------------------------- *)
\* C14 as stated: every JSON response body produced by any route, on success
\* and on error, is an object that carries both a boolean success field and a
\* string message field; this covers GET /auth/check, GET /problemas,
\* GET /usuario/:id and the 404 and catch-all handlers as well as the write
\* routes.
C14_EveryBodyHasSuccessAndMessage ==
  resp.reply.json # "none"
  => /\ resp.reply.json = "object"
     /\ "success" \in DOMAIN resp.reply.body
     /\ "message" \in DOMAIN resp.reply.body
     /\ resp.reply.body.success \in BOOLEAN
     /\ resp.reply.body.message \in STRING

\* C14 amended: every error response (status 400 and above) and every
\* successful response of a write route is an object with a boolean success
\* and a string message (success is false exactly on the errors); the
\* successful reads are shaped otherwise: GET /auth/check answers
\* {authenticated[, user]}, GET /problemas answers a bare array and
\* GET /usuario/:id answers {success: true, user}, none with a message.
C14_BodyShapes ==
  resp.reply.json # "none"
  => \/ /\ resp.reply.json = "array"
        /\ resp.reply.status = 200
     \/ /\ resp.reply.json = "object"
        /\ resp.reply.status = 200
        /\ DOMAIN resp.reply.body \in {{"authenticated"}, {"authenticated", "user"}}
        /\ resp.reply.body.authenticated \in BOOLEAN
     \/ /\ resp.reply.json = "object"
        /\ resp.reply.status = 200
        /\ DOMAIN resp.reply.body = {"success", "user"}
        /\ resp.reply.body.success = TRUE
     \/ /\ resp.reply.json = "object"
        /\ {"success", "message"} \subseteq DOMAIN resp.reply.body
        /\ resp.reply.body.success \in BOOLEAN
        /\ resp.reply.body.message \in STRING
        /\ resp.reply.body.success = (resp.reply.status < 400)

\* GET /usuario/:id has just answered with a user and no message.
C14_Witness ==
  /\ resp.reply.json = "object"
  /\ DOMAIN resp.reply.body = {"success", "user"}
  /\ resp.reply.body.user.email = "bia@x"

(* ------------------------------- C15 ----------------------------------- *)
\* C15: over any sequence of API requests, a report row once created is never
\* deleted and its type, description, date, latitude, longitude, category,
\* owner and creation time never change; the only change ever made to an
\* existing report is that a DELETE /problemas/:id/foto for its own id sets
\* its photo reference to null, and that request changes no other report.
C15_ReportsImmutableButPhoto ==
  [][/\ Len(problemas') >= Len(problemas)
     /\ \A k \in 1..Len(problemas) :
          /\ problemas'[k].id = problemas[k].id
          /\ problemas'[k].campos = problemas[k].campos
          /\ problemas'[k].usuario_id = problemas[k].usuario_id
          /\ problemas'[k].created_at = problemas[k].created_at
          /\ problemas'[k].foto # problemas[k].foto
               => /\ problemas'[k].foto = [host |-> "null", folder |-> "", name |-> 0]
                  /\ \E s \in Sessions :
                       /\ Steps(s, "foto", "update")
                       /\ req[s].problemaId = problemas[k].id
                       /\ resp'.reply = Expect(200, TRUE, "Foto removida com sucesso")]_vars

\* A photo has just been removed from one report while another report still
\* carries its hosted photo.
C15_Witness ==
  /\ resp.reply = Expect(200, TRUE, "Foto removida com sucesso")
  /\ \E i, j \in 1..Len(problemas) :
       /\ problemas[i].foto.host = "null"
       /\ problemas[j].foto.host = "res.cloudinary.com"
  /\ remote # {}

(* ------------------------------- C16 ----------------------------------- *)
\* C16: in the local-disk profiles, once a POST /problemas has been answered,
\* every file it wrote to the upload directory is referenced by the photo
\* column of a report row: when validation rejects the request or the INSERT
\* fails the file is deleted before the error response is sent, so every file
\* in the directory belongs to a row or to a submission not yet answered.
C16_NoOrphanUpload ==
  variant = "disk"
  => \A n \in uploads :
       \/ \E k \in 1..Len(problemas) :
            problemas[k].foto = [host |-> "uploads", folder |-> "", name |-> n]
       \/ \E s \in Sessions :
            /\ req[s].route = "problemas" /\ req[s].pc = "insert"
            /\ req[s].foto = [host |-> "uploads", folder |-> "", name |-> n]

\* Disk profile: after the login, the one submission received wrote its photo
\* and its INSERT has just failed; the upload directory is empty again.
C16_Witness ==
  /\ variant = "disk"
  /\ ErrorIs(resp.reply, 500, "Erro ao salvar problema", "store unavailable")
  /\ nreq = 2 /\ fileSeq = 1
  /\ uploads = {} /\ problemas = <<>>

(* ------------------------------- C17 ----------------------------------- *)
\* C17: over any sequence of API requests, a user row once created is never
\* deleted and its id, email and password hash never change; its name and
\* photo change only through a successful PUT /perfil issued from a session
\* whose userId is that row's id, and a PUT /perfil never changes any other
\* user's row.
C17_UsersImmutableButProfile ==
  [][/\ Len(usuarios') >= Len(usuarios)
     /\ \A k \in 1..Len(usuarios) :
          /\ usuarios'[k].id = usuarios[k].id
          /\ usuarios'[k].email = usuarios[k].email
          /\ usuarios'[k].senha = usuarios[k].senha
          /\ (\/ usuarios'[k].nome # usuarios[k].nome
              \/ usuarios'[k].foto_perfil # usuarios[k].foto_perfil)
               => \E s \in Sessions :
                    /\ Steps(s, "perfil", "update")
                    /\ session[s].userId = usuarios[k].id
                    /\ req'[s].route = "perfil" /\ req'[s].pc = "respond"
                    /\ usuarios'[k].nome = req[s].nome]_vars

\* A profile update has just been answered 200 while two users are stored
\* and only one of them carries the new name.
C17_Witness ==
  /\ resp.reply.status = 200 /\ resp.reply.json = "object"
  /\ "message" \in DOMAIN resp.reply.body
  /\ resp.reply.body.message = "Perfil atualizado com sucesso"
  /\ Len(usuarios) = 2
  /\ usuarios[1].nome # usuarios[2].nome

(* ------------------------------- C18 ----------------------------------- *)
\* The response is one of the failures of POST /login.
LoginFailure(r) ==
  \/ r = Expect(400, FALSE, "E-mail e senha são obrigatórios")
  \/ r = Expect(400, FALSE, "E-mail ou senha incorretos")
  \/ ErrorIs(r, 500, "Erro ao fazer login", "store unavailable")

\* C18: in every reachable state, each session that holds a userId holds the
\* id of an existing user row together with that row's email, and only a
\* successful login or a logout changes a session's userId: a POST /login
\* that fails (missing field, unknown email, wrong password or store error)
\* leaves a previously established session identity exactly as it was.
C18_SessionIdentity ==
  /\ [](\A s \in Sessions :
          session[s].userId # 0
          => \E i \in 1..Len(usuarios) :
               /\ usuarios[i].id = session[s].userId
               /\ usuarios[i].email = session[s].userEmail)
  /\ [][\A s \in Sessions :
          /\ session'[s].userId # session[s].userId
               => \/ /\ Steps(s, "login", "compare")
                     /\ resp'.reply.status = 200
                     /\ session'[s].userId # 0
                  \/ /\ resp' = [sid |-> s,
                                 reply |-> Expect(200, TRUE, "Logout realizado com sucesso")]
                     /\ session'[s].userId = 0
          /\ (resp'.sid = s /\ LoginFailure(resp'.reply))
               => session'[s] = session[s]]_vars

\* A login has just failed on a session that holds an identity, which it keeps.
C18_Witness ==
  /\ LoginFailure(resp.reply)
  /\ session[resp.sid].userId # 0
  /\ \E i \in 1..Len(usuarios) : usuarios[i].email = session[resp.sid].userEmail
====
